---- MODULE Spec2Model ----
(***************************************************************************)
(* Booking / slot-reservation engine of aroundubackend                     *)
(* (src/routes/adminRoutes.js, the bookingRoutes part, lines 122-895).     *)
(*                                                                         *)
(* The tables are the state; every route handler is a process that runs    *)
(* one query per step, so handlers interleave between queries exactly as   *)
(* the awaits of the code allow.  The store is PostgreSQL at its default   *)
(* READ COMMITTED isolation: a transaction's writes are private until      *)
(* COMMIT, a plain SELECT never waits, SELECT ... FOR UPDATE / UPDATE wait *)
(* for the row lock and then read the latest committed row.                *)
(***************************************************************************)
EXTENDS Integers, Sequences, FiniteSets, TLC

(* ---------------- bounds of the model ---------------- *)
NumProcs == 2        \* concurrent request handlers (pool workers)
MaxReq   == 2        \* booking_requests rows ever inserted
MaxCap   == 1        \* largest capacity value stored on an instance
MaxBatch == 2        \* ranges in one batch
MaxInst  == 3        \* slot_instances rows ever inserted
DayLen   == 3        \* timestamps per date
Today    == 1        \* the server's current date

Procs == 1..NumProcs

(* ---------------- identities and NULLs ---------------- *)
Ids    == {"P", "Q", "A"}      \* authenticated identities (req.user.id)
NoUser == "null"               \* SQL NULL in a user column
NoId   == 0                    \* SQL NULL in an id column

NoRow == [id |-> NoId]         \* "rows.length === 0"

\* the time zones a server may run in: behind UTC, UTC, ahead of UTC
TimeZones == {-1, 0, 1}

(* ---------------- state ---------------- *)
VARIABLES
  users,             \* ids present in table users
  slots,             \* table slots (templates): {[id, professor_id, capacity]}
  slot_instances,    \* table slot_instances: {[id, slot_id, date, start_ts, end_ts, capacity, created_by]}
  booking_requests,  \* table booking_requests: {[id, slot_instance_id, requester_id, status]}
  bookings,          \* table bookings, in insertion order: <<[slot_instance_id, request_id, user_id]>>
  proc,              \* per handler: the running accept / reject / submit call and its locals
  batch,             \* per handler: the running POST /slot-instances/batch call and its locals
  tz,                \* the server's time zone: local time minus UTC, in timestamps
  pool,              \* transactions left open on clients given back to the pool: {[br, si, slot]}
  follow_requests,   \* table follow_requests: <<requester_id, target_id>> -> status ("none": no row)
  followers_count,   \* column users.followers_count
  following_count,   \* column users.following_count
  follow,            \* per handler: the running follow route call and its locals
  otpStore,          \* otpRoutes.js: Map email -> { otp, expires }
  otpStoreForgot,    \* forgotPasswordRoutes.js: Map email -> { otp, expires }
  now,               \* Date.now()
  otp                \* the last answer of an OTP route

followVars == <<follow_requests, followers_count, following_count, follow>>
otpVars    == <<otpStore, otpStoreForgot, now, otp>>

vars == <<users, slots, slot_instances, booking_requests, bookings, proc, batch, tz, pool, followVars, otpVars>>

(* ---------------- handler locals ---------------- *)
\* A handler that is not serving a call.
Idle ==
  [op |-> "idle", pc |-> "idle", user |-> NoUser, arg |-> NoId,
   br |-> NoRow, si |-> NoRow, slot |-> NoRow,
   txBooking |-> FALSE, txStatus |-> FALSE, res |-> "none"]

BatchIdle ==
  [pc |-> "idle", professorId |-> NoUser, date |-> 0, ranges |-> <<>>,
   existing |-> {}, inserted |-> 0, res |-> "none"]

\* A handler that is not serving a call of the follow routes.
FollowIdle ==
  [op |-> "idle", pc |-> "idle", requester |-> NoUser, target |-> NoUser,
   followers |-> 0, following |-> 0, res |-> "none"]

\* otpStore.get(email) === undefined
NoOtp == [otp |-> "", expires |-> 0]

\* no OTP route has answered yet
OtpIdle == [route |-> "none", email |-> "", otp |-> "", status |-> 0, verified |-> FALSE]

\* the follow graph and the OTP stores right after the server started on an
\* empty follow_requests table
NoFollows ==
  /\ follow_requests = [c \in Ids \X Ids |-> "none"]
  /\ followers_count = [u \in Ids |-> 0]
  /\ following_count = [u \in Ids |-> 0]
  /\ follow = [p \in Procs |-> FollowIdle]

NoOtps ==
  /\ otpStore = [e \in Ids |-> NoOtp]
  /\ otpStoreForgot = [e \in Ids |-> NoOtp]
  /\ now = 0
  /\ otp = OtpIdle

(* ---------------- the store ---------------- *)
\* SELECT ... WHERE id = $1 : the row, or NoRow when rows.length === 0
RowById(table, id) ==
  IF \E r \in table : r.id = id THEN CHOOSE r \in table : r.id = id ELSE NoRow

\* program points of POST /requests/:id/accept at which the transaction holds
\* the FOR UPDATE lock of step 1, of step 2 and of step 3
ReqLockPcs  == {"lockInst", "lockSlot", "count", "requester", "insert", "update", "commit"}
InstLockPcs == {"lockSlot", "count", "requester", "insert", "update", "commit"}
SlotLockPcs == {"count", "requester", "insert", "update", "commit"}

HoldsReq(p, id) ==
  proc[p].op = "accept" /\ proc[p].pc \in ReqLockPcs /\ proc[p].br.id = id

\* step 2 with a lock on the whole table instead of the row
HoldsInst_anyRow(p, id) ==
  proc[p].op = "accept" /\ proc[p].pc \in InstLockPcs

HoldsInst(p, id) ==
  proc[p].op = "accept" /\ proc[p].pc \in InstLockPcs /\ proc[p].si.id = id

\* the template row locked before the instance row: step 1 reads the
\* instance's slot_id in a join and locks the template with the request
HoldsSlot_early(p, id) ==
  /\ proc[p].op = "accept" /\ proc[p].pc \in ReqLockPcs
  /\ \E si \in slot_instances : si.id = proc[p].br.slot_instance_id /\ si.slot_id = id

HoldsSlot(p, id) ==
  proc[p].op = "accept" /\ proc[p].pc \in SlotLockPcs /\ proc[p].slot.id = id

\* the same queries without FOR UPDATE: no row lock is ever seen
ReqLocked_unlocked(id)  == FALSE
InstLocked_unlocked(id) == FALSE

\* a row is locked by a running transaction, or by one that was left open on
\* a client given back to the pool
ReqLocked(id)  == id # NoId /\ ((\E p \in Procs : HoldsReq(p, id)) \/ \E t \in pool : t.br = id)
InstLocked(id) == id # NoId /\ ((\E p \in Procs : HoldsInst(p, id)) \/ \E t \in pool : t.si = id)
SlotLocked(id) == id # NoId /\ ((\E p \in Procs : HoldsSlot(p, id)) \/ \E t \in pool : t.slot = id)

\* SELECT COUNT(*) FROM bookings WHERE slot_instance_id = $1
BookingCount(instId) ==
  Cardinality({k \in 1..Len(bookings) : bookings[k].slot_instance_id = instId})

(* ---------------- initial state ---------------- *)
\* Two templates: one of provider P with a bounded capacity, one of provider Q
\* with capacity 0 (unlimited).
InitSlots ==
  {[id |-> 1, professor_id |-> "P", capacity |-> 1],
   [id |-> 2, professor_id |-> "Q", capacity |-> 0]}

\* One instance for today: materialized from a template (created_by NULL),
\* ad-hoc (slot_id NULL, created_by set) or created by the batch route with a
\* slot_id (both set; the batch route stores any slot_id the caller sends).
InitInstances ==
  {[id |-> 1, slot_id |-> t, date |-> Today, start_ts |-> Today * DayLen, end_ts |-> Today * DayLen + 1,
    capacity |-> c, created_by |-> u] :
      t \in {NoId, 1, 2}, c \in 0..MaxCap, u \in {NoUser, "P"}}
  \ {[id |-> 1, slot_id |-> NoId, date |-> Today, start_ts |-> Today * DayLen, end_ts |-> Today * DayLen + 1,
      capacity |-> c, created_by |-> NoUser] : c \in 0..MaxCap}

Init ==
  /\ users \in {Ids, Ids \ {"A"}}
  /\ slots = InitSlots
  /\ \E i \in InitInstances : slot_instances = {i}
  /\ booking_requests = {}
  /\ bookings = <<>>
  /\ proc = [p \in Procs |-> Idle]
  /\ batch = [p \in Procs |-> BatchIdle]
  /\ tz = 0
  /\ pool = {}
  /\ NoFollows
  /\ NoOtps

(* ---------------- POST /requests/:id/accept ---------------- *)
\* a response was sent (after ROLLBACK on the failure paths): the transaction's
\* private writes are gone and its locks are released
Respond(l, r) ==
  [Idle EXCEPT !.op = l.op, !.pc = "done", !.arg = l.arg, !.res = r]

\* step 4: slot.professor_id if the template row was found, else si.created_by
ownerProfessorId(si, slot) ==
  IF slot.id # NoId THEN slot.professor_id
  ELSE IF si.created_by # NoUser THEN si.created_by
  ELSE NoUser

\* step 5 without the fallback to the template's capacity
capacity_instanceOnly(si, slot) ==
  IF si.capacity > 0 THEN si.capacity ELSE 0

\* step 5: instance.capacity (if > 0) else template.capacity (if > 0) else 0
capacity(si, slot) ==
  LET instanceCapacity == IF si.capacity > 0 THEN si.capacity ELSE 0
      templateCapacity == IF slot.id # NoId /\ slot.capacity > 0 THEN slot.capacity ELSE 0
  IN  IF instanceCapacity > 0 THEN instanceCapacity ELSE templateCapacity

\* steps 4 and 5 up to the next query, once si and slot are read
AuthorizeAccept(l) ==
  IF ownerProfessorId(l.si, l.slot) = NoUser THEN Respond(l, "MissingOwner")
  ELSE IF ownerProfessorId(l.si, l.slot) # l.user THEN Respond(l, "Forbidden")
  ELSE IF capacity(l.si, l.slot) > 0 THEN [l EXCEPT !.pc = "count"]
  ELSE [l EXCEPT !.pc = "requester"]

\* pool.connect() and BEGIN
AcceptBegin(p, requestId, professorId) ==
  /\ proc[p].pc = "idle"
  /\ proc' = [proc EXCEPT ![p] =
       [Idle EXCEPT !.op = "accept", !.pc = "lockReq", !.user = professorId, !.arg = requestId]]
  /\ UNCHANGED <<users, slots, slot_instances, booking_requests, bookings, batch, tz, pool, followVars, otpVars>>

\* 1) SELECT ... FROM booking_requests WHERE id = $1 FOR UPDATE
AcceptLockRequest(p) ==
  /\ proc[p].op = "accept" /\ proc[p].pc = "lockReq"
  /\ ~ReqLocked(proc[p].arg)
  /\ LET l  == proc[p]
         br == RowById(booking_requests, l.arg)
     IN  proc' = [proc EXCEPT ![p] =
           IF br.id = NoId THEN Respond(l, "NotFound")
           ELSE IF br.status # "pending" THEN Respond(l, "NotPending")
           ELSE IF br.slot_instance_id = NoId THEN Respond(l, "NoSlotInstance")
           ELSE [l EXCEPT !.pc = "lockInst", !.br = br]]
  /\ UNCHANGED <<users, slots, slot_instances, booking_requests, bookings, batch, tz, pool, followVars, otpVars>>

\* 2) SELECT ... FROM slot_instances WHERE id = $1 FOR UPDATE
AcceptLockInstance(p) ==
  /\ proc[p].op = "accept" /\ proc[p].pc = "lockInst"
  /\ ~InstLocked(proc[p].br.slot_instance_id)
  /\ LET l  == proc[p]
         si == RowById(slot_instances, l.br.slot_instance_id)
     IN  proc' = [proc EXCEPT ![p] =
           IF si.id = NoId THEN Respond(l, "InstanceMissing")
           ELSE IF si.slot_id # NoId THEN [l EXCEPT !.pc = "lockSlot", !.si = si]
           ELSE AuthorizeAccept([l EXCEPT !.si = si])]
  /\ UNCHANGED <<users, slots, slot_instances, booking_requests, bookings, batch, tz, pool, followVars, otpVars>>

\* 3) SELECT ... FROM slots WHERE id = $1 FOR UPDATE
AcceptLockSlot(p) ==
  /\ proc[p].op = "accept" /\ proc[p].pc = "lockSlot"
  /\ ~SlotLocked(proc[p].si.slot_id)
  /\ LET l    == proc[p]
         slot == RowById(slots, l.si.slot_id)
     IN  proc' = [proc EXCEPT ![p] = AuthorizeAccept([l EXCEPT !.slot = slot])]
  /\ UNCHANGED <<users, slots, slot_instances, booking_requests, bookings, batch, tz, pool, followVars, otpVars>>

\* 5) SELECT COUNT(*) FROM bookings WHERE slot_instance_id = $1 ; cnt >= capacity
AcceptCount(p) ==
  /\ proc[p].op = "accept" /\ proc[p].pc = "count"
  /\ LET l == proc[p]
     IN  proc' = [proc EXCEPT ![p] =
           IF BookingCount(l.si.id) >= capacity(l.si, l.slot)
           THEN Respond(l, "CapacityFull")
           ELSE [l EXCEPT !.pc = "requester"]]
  /\ UNCHANGED <<users, slots, slot_instances, booking_requests, bookings, batch, tz, pool, followVars, otpVars>>

\* 6) SELECT id FROM users WHERE id = $1
AcceptCheckRequester(p) ==
  /\ proc[p].op = "accept" /\ proc[p].pc = "requester"
  /\ LET l == proc[p]
     IN  proc' = [proc EXCEPT ![p] =
           IF l.br.requester_id \notin users
           THEN Respond(l, "RequesterMissing")
           ELSE [l EXCEPT !.pc = "insert"]]
  /\ UNCHANGED <<users, slots, slot_instances, booking_requests, bookings, batch, tz, pool, followVars, otpVars>>

\* 7) INSERT INTO bookings ... (private to the transaction until COMMIT)
AcceptInsertBooking(p) ==
  /\ proc[p].op = "accept" /\ proc[p].pc = "insert"
  /\ proc' = [proc EXCEPT ![p].pc = "update", ![p].txBooking = TRUE]
  /\ UNCHANGED <<users, slots, slot_instances, booking_requests, bookings, batch, tz, pool, followVars, otpVars>>

\* 7) UPDATE booking_requests SET status = 'accepted' WHERE id = $1
AcceptUpdateStatus(p) ==
  /\ proc[p].op = "accept" /\ proc[p].pc = "update"
  /\ proc' = [proc EXCEPT ![p].pc = "commit", ![p].txStatus = TRUE]
  /\ UNCHANGED <<users, slots, slot_instances, booking_requests, bookings, batch, tz, pool, followVars, otpVars>>

\* a ROLLBACK that keeps the booking the transaction inserted
BookingsAfter_kept(l, committed) ==
  IF l.txBooking
  THEN Append(bookings,
         [slot_instance_id |-> l.si.id, request_id |-> l.br.id, user_id |-> l.br.requester_id])
  ELSE bookings

\* the rows of a table after the transaction of l ends: its private writes
\* when it commits, nothing of it when it rolls back
BookingsAfter(l, committed) ==
  IF committed /\ l.txBooking
  THEN Append(bookings,
         [slot_instance_id |-> l.si.id, request_id |-> l.br.id, user_id |-> l.br.requester_id])
  ELSE bookings

RequestsAfter(l, committed) ==
  IF committed /\ l.txStatus
  THEN {IF r.id = l.br.id THEN [r EXCEPT !.status = "accepted"] ELSE r : r \in booking_requests}
  ELSE booking_requests

\* COMMIT, then res.json({ booking })
AcceptCommit(p) ==
  /\ proc[p].op = "accept" /\ proc[p].pc = "commit"
  /\ bookings' = BookingsAfter(proc[p], TRUE)
  /\ booking_requests' = RequestsAfter(proc[p], TRUE)
  /\ proc' = [proc EXCEPT ![p] = Respond(proc[p], "ok")]
  /\ UNCHANGED <<users, slots, slot_instances, batch, tz, pool, followVars, otpVars>>

\* what the caller gets when the catch block throws: the handler's promise
\* rejects and the handler sends nothing ("ReferenceError": a router that
\* ignores the promise leaves the call without a response), or the router
\* passes the rejection to the default error handler, which answers 500
\* ("DefaultHandler")
StoreErrorOutcomes == {"ReferenceError", "DefaultHandler"}

\* a query of the transaction throws: catch -> ROLLBACK, then each of the
\* three response expressions reads the undeclared identifier isDev and
\* throws a ReferenceError out of the handler (finally releases the client)
AcceptStoreError(p) ==
  /\ proc[p].op = "accept"
  /\ proc[p].pc \in ReqLockPcs \cup {"lockReq"}
  /\ bookings' = BookingsAfter(proc[p], FALSE)
  /\ booking_requests' = RequestsAfter(proc[p], FALSE)
  /\ \E r \in StoreErrorOutcomes : proc' = [proc EXCEPT ![p] = Respond(proc[p], r)]
  /\ UNCHANGED <<users, slots, slot_instances, batch, tz, pool, followVars, otpVars>>

\* the HTTP status that accept sends with each of its answers
HttpStatus(r) ==
  CASE r = "ok" -> 200
    [] r = "NotFound" -> 404
    [] r = "NotPending" -> 400
    [] r = "NoSlotInstance" -> 400
    [] r = "InstanceMissing" -> 400
    [] r = "MissingOwner" -> 400
    [] r = "Forbidden" -> 403
    [] r = "CapacityFull" -> 409
    [] r = "RequesterMissing" -> 400
    [] r = "DefaultHandler" -> 500
    [] OTHER -> 0

\* the handler is free to serve the next call
Finish(p) ==
  /\ proc[p].pc = "done"
  /\ proc' = [proc EXCEPT ![p] = Idle]
  /\ UNCHANGED <<users, slots, slot_instances, booking_requests, bookings, batch, tz, pool, followVars, otpVars>>

(* ---------------- POST /requests/:id/reject ---------------- *)
\* SELECT br.id, s.professor_id, br.status FROM booking_requests br
\*   JOIN slot_instances si ON br.slot_instance_id = si.id
\*   JOIN slots s ON si.slot_id = s.id WHERE br.id = $1
\* (inner joins: no row unless the instance and its template both exist)
RejectJoin(requestId) ==
  LET br == RowById(booking_requests, requestId)
      si == IF br.id = NoId THEN NoRow ELSE RowById(slot_instances, br.slot_instance_id)
      s  == IF si.id = NoId THEN NoRow ELSE RowById(slots, si.slot_id)
  IN  IF s.id = NoId THEN NoRow
      ELSE [id |-> br.id, professor_id |-> s.professor_id, status |-> br.status]

\* the handler starts: requestId and professorId are read from the call
RejectBegin(p, requestId, professorId) ==
  /\ proc[p].pc = "idle"
  /\ proc' = [proc EXCEPT ![p] =
       [Idle EXCEPT !.op = "reject", !.pc = "rejSelect", !.user = professorId, !.arg = requestId]]
  /\ UNCHANGED <<users, slots, slot_instances, booking_requests, bookings, batch, tz, pool, followVars, otpVars>>

\* the three checks on the row of the ownership query
RejectOutcome(r, professorId) ==
  IF r.id = NoId THEN "NotFound"
  ELSE IF r.professor_id # professorId THEN "Forbidden"
  ELSE IF r.status # "pending" THEN "NotPending"
  ELSE "update"

\* the ownership query and the three checks on its row
RejectSelect(p) ==
  /\ proc[p].op = "reject" /\ proc[p].pc = "rejSelect"
  /\ LET l == proc[p]
         o == RejectOutcome(RejectJoin(l.arg), l.user)
     IN  proc' = [proc EXCEPT ![p] =
           IF o = "update" THEN [l EXCEPT !.pc = "rejUpdate"] ELSE Respond(l, o)]
  /\ UNCHANGED <<users, slots, slot_instances, booking_requests, bookings, batch, tz, pool, followVars, otpVars>>

\* UPDATE booking_requests SET status = 'rejected' WHERE id = $1
\* (waits for the row lock; the WHERE clause does not look at status)
RejectUpdate(p) ==
  /\ proc[p].op = "reject" /\ proc[p].pc = "rejUpdate"
  /\ ~ReqLocked(proc[p].arg)
  /\ booking_requests' =
       {IF r.id = proc[p].arg THEN [r EXCEPT !.status = "rejected"] ELSE r : r \in booking_requests}
  /\ proc' = [proc EXCEPT ![p] = Respond(proc[p], "ok")]
  /\ UNCHANGED <<users, slots, slot_instances, bookings, batch, tz, pool, followVars, otpVars>>

(* ---------------- POST /slot-instances/:id/request ---------------- *)
\* the owner resolved as step 4 of accept does: the template's owner first
ResolvedOwner_templateFirst(si) ==
  IF RowById(slots, si.slot_id).id # NoId THEN RowById(slots, si.slot_id).professor_id
  ELSE si.created_by

\* COALESCE(created_by, (SELECT professor_id FROM slots WHERE id = si.slot_id))
ResolvedOwner(si) ==
  IF si.created_by # NoUser THEN si.created_by
  ELSE IF RowById(slots, si.slot_id).id # NoId THEN RowById(slots, si.slot_id).professor_id
  ELSE NoUser

InFlightSubmits == Cardinality({p \in Procs : proc[p].op = "submit" /\ proc[p].pc # "done"})

\* instance lookup, 404, and the owner exclusion
SubmitSelectInstance(p, instanceId, user) ==
  /\ proc[p].pc = "idle"
  /\ Cardinality(booking_requests) + InFlightSubmits < MaxReq
  /\ LET l    == [Idle EXCEPT !.op = "submit", !.user = user, !.arg = instanceId]
         inst == RowById(slot_instances, instanceId)
     IN  proc' = [proc EXCEPT ![p] =
           IF inst.id = NoId THEN Respond(l, "NotFound")
           ELSE IF ResolvedOwner(inst) # NoUser /\ ResolvedOwner(inst) = user
                THEN Respond(l, "Forbidden")
           ELSE [l EXCEPT !.pc = "dupCheck"]]
  /\ UNCHANGED <<users, slots, slot_instances, booking_requests, bookings, batch, tz, pool, followVars, otpVars>>

\* SELECT id FROM booking_requests WHERE slot_instance_id = $1 AND requester_id = $2
SubmitDupCheck(p) ==
  /\ proc[p].op = "submit" /\ proc[p].pc = "dupCheck"
  /\ LET l == proc[p]
     IN  proc' = [proc EXCEPT ![p] =
           IF \E r \in booking_requests :
                r.slot_instance_id = l.arg /\ r.requester_id = l.user
           THEN Respond(l, "Conflict")
           ELSE [l EXCEPT !.pc = "insertReq"]]
  /\ UNCHANGED <<users, slots, slot_instances, booking_requests, bookings, batch, tz, pool, followVars, otpVars>>

\* the value of the status column of a row inserted without one (the
\* table's definition is not part of the routes; the data model gives a new
\* BookingRequest the status pending)
StatusDefault == "pending"

\* the INSERT with the owner read by the instance query for requester_id
SubmitInsert_owner(p) ==
  /\ proc[p].op = "submit" /\ proc[p].pc = "insertReq"
  /\ booking_requests' = booking_requests \cup
       {[id |-> Cardinality(booking_requests) + 1, slot_instance_id |-> proc[p].arg,
         requester_id |-> ResolvedOwner(RowById(slot_instances, proc[p].arg)),
         status |-> StatusDefault]}
  /\ proc' = [proc EXCEPT ![p] = Respond(proc[p], "ok")]
  /\ UNCHANGED <<users, slots, slot_instances, bookings, batch, tz, pool, followVars, otpVars>>

\* INSERT INTO booking_requests (slot_instance_id, requester_id, requester_message)
\* status takes the column default
SubmitInsert(p) ==
  /\ proc[p].op = "submit" /\ proc[p].pc = "insertReq"
  /\ booking_requests' = booking_requests \cup
       {[id |-> Cardinality(booking_requests) + 1, slot_instance_id |-> proc[p].arg,
         requester_id |-> proc[p].user, status |-> StatusDefault]}
  /\ proc' = [proc EXCEPT ![p] = Respond(proc[p], "ok")]
  /\ UNCHANGED <<users, slots, slot_instances, bookings, batch, tz, pool, followVars, otpVars>>

(* ---------------- the acceptance engine ---------------- *)
\* ids a caller may name: every row's id, and one id that names no row
InstanceIds == 1..(Cardinality(slot_instances) + 1)
RequestIds  == 1..MaxReq

Next ==
  \E p \in Procs :
    \/ \E r \in RequestIds, u \in Ids : AcceptBegin(p, r, u)
    \/ AcceptLockRequest(p)
    \/ AcceptLockInstance(p)
    \/ AcceptLockSlot(p)
    \/ AcceptCount(p)
    \/ AcceptCheckRequester(p)
    \/ AcceptInsertBooking(p)
    \/ AcceptUpdateStatus(p)
    \/ AcceptCommit(p)
    \/ AcceptStoreError(p)
    \/ \E r \in RequestIds, u \in Ids : RejectBegin(p, r, u)
    \/ RejectSelect(p)
    \/ RejectUpdate(p)
    \/ \E i \in InstanceIds, u \in Ids : SubmitSelectInstance(p, i, u)
    \/ SubmitDupCheck(p)
    \/ SubmitInsert(p)
    \/ Finish(p)

Spec == Init /\ [][Next]_vars

\* the providers who call accept and delete
LockCallers == {"P", "Q"}

(* ---------------- DELETE /slot-instances/:id ---------------- *)
\* the handler starts: id and professorId are read from the call
DeleteBegin(p, id, professorId) ==
  /\ proc[p].pc = "idle"
  /\ proc' = [proc EXCEPT ![p] =
       [Idle EXCEPT !.op = "delete", !.pc = "delSelect", !.user = professorId, !.arg = id]]
  /\ UNCHANGED <<users, slots, slot_instances, booking_requests, bookings, batch, tz, pool, followVars, otpVars>>

\* the two checks without the comparison of the owner with the caller
DeleteOutcome_noOwnerCheck(si, professorId) ==
  IF si.id = NoId THEN "NotFound" ELSE "delete"

\* the two checks on the row of the ownership query; the owner is
\* COALESCE(si.created_by, s.professor_id) over the LEFT JOIN with slots, and
\* String(null) equals no caller's id
DeleteOutcome(si, professorId) ==
  IF si.id = NoId THEN "NotFound"
  ELSE IF ResolvedOwner(si) # professorId THEN "Forbidden"
  ELSE "delete"

\* the ownership query and the two checks
DeleteSelect(p) ==
  /\ proc[p].op = "delete" /\ proc[p].pc = "delSelect"
  /\ LET l == proc[p]
         o == DeleteOutcome(RowById(slot_instances, l.arg), l.user)
     IN  proc' = [proc EXCEPT ![p] =
           IF o = "delete" THEN [l EXCEPT !.pc = "delDelete"] ELSE Respond(l, o)]
  /\ UNCHANGED <<users, slots, slot_instances, booking_requests, bookings, batch, tz, pool, followVars, otpVars>>

\* DELETE FROM slot_instances WHERE id = $1 (waits for the row lock; the rows
\* of booking_requests and bookings are not looked at)
DeleteRow(p) ==
  /\ proc[p].op = "delete" /\ proc[p].pc = "delDelete"
  /\ ~InstLocked(proc[p].arg)
  /\ slot_instances' = {si \in slot_instances : si.id # proc[p].arg}
  /\ proc' = [proc EXCEPT ![p] = Respond(proc[p], "ok")]
  /\ UNCHANGED <<users, slots, booking_requests, bookings, batch, tz, pool, followVars, otpVars>>

\* a query throws (the store refuses it): catch, 500, nothing is deleted
DeleteStoreError(p) ==
  /\ proc[p].op = "delete" /\ proc[p].pc \in {"delSelect", "delDelete"}
  /\ proc' = [proc EXCEPT ![p] = Respond(proc[p], "StoreError")]
  /\ UNCHANGED <<users, slots, slot_instances, booking_requests, bookings, batch, tz, pool, followVars, otpVars>>

\* The accept and the delete routes on a store that holds one instance and
\* one pending request for it.
InitDeleteRequests ==
  {[id |-> 1, slot_instance_id |-> 1, requester_id |-> "A", status |-> "pending"]}

InitDelete ==
  /\ users = Ids
  /\ slots = InitSlots
  /\ \E i \in InitInstances : slot_instances = {i}
  /\ booking_requests = InitDeleteRequests
  /\ bookings = <<>>
  /\ proc = [p \in Procs |-> Idle]
  /\ batch = [p \in Procs |-> BatchIdle]
  /\ tz = 0
  /\ pool = {}
  /\ NoFollows
  /\ NoOtps

NextDelete ==
  \E p \in Procs :
    \/ \E r \in RequestIds, u \in LockCallers : AcceptBegin(p, r, u)
    \/ AcceptLockRequest(p)
    \/ AcceptLockInstance(p)
    \/ AcceptLockSlot(p)
    \/ AcceptCount(p)
    \/ AcceptCheckRequester(p)
    \/ AcceptInsertBooking(p)
    \/ AcceptUpdateStatus(p)
    \/ AcceptCommit(p)
    \/ AcceptStoreError(p)
    \/ \E i \in InstanceIds, u \in LockCallers : DeleteBegin(p, i, u)
    \/ DeleteSelect(p)
    \/ DeleteRow(p)
    \/ DeleteStoreError(p)
    \/ Finish(p)

SpecDelete == InitDelete /\ [][NextDelete]_vars

(* ---------------- concurrent accepts ---------------- *)
\* The accept route alone, on a store that holds two instances and a pending
\* request for each of two consumers: the second instance is materialized
\* from the same template as the first, or is ad-hoc; the second request is
\* for the first or for the second instance.
InitLockInstances ==
  {{[id |-> 1, slot_id |-> 1, date |-> Today, start_ts |-> Today * DayLen,
     end_ts |-> Today * DayLen + 1, capacity |-> 0, created_by |-> NoUser],
    [id |-> 2, slot_id |-> t, date |-> Today, start_ts |-> Today * DayLen + 1,
     end_ts |-> Today * DayLen + 2, capacity |-> 0,
     created_by |-> IF t = NoId THEN "P" ELSE NoUser]} : t \in {NoId, 1}}

InitLockRequests ==
  {{[id |-> 1, slot_instance_id |-> 1, requester_id |-> "A", status |-> "pending"],
    [id |-> 2, slot_instance_id |-> i, requester_id |-> "Q", status |-> "pending"]} : i \in {1, 2}}

InitLock ==
  /\ users = Ids
  /\ slots = InitSlots
  /\ slot_instances \in InitLockInstances
  /\ booking_requests \in InitLockRequests
  /\ bookings = <<>>
  /\ proc = [p \in Procs |-> Idle]
  /\ batch = [p \in Procs |-> BatchIdle]
  /\ tz = 0
  /\ pool = {}
  /\ NoFollows
  /\ NoOtps

NextLock ==
  \E p \in Procs :
    \/ \E r \in RequestIds, u \in LockCallers : AcceptBegin(p, r, u)
    \/ AcceptLockRequest(p)
    \/ AcceptLockInstance(p)
    \/ AcceptLockSlot(p)
    \/ AcceptCount(p)
    \/ AcceptCheckRequester(p)
    \/ AcceptInsertBooking(p)
    \/ AcceptUpdateStatus(p)
    \/ AcceptCommit(p)
    \/ AcceptStoreError(p)
    \/ Finish(p)

\* Scheduling: the event loop resumes every handler whose awaited query has
\* returned, and the store answers every query that does not wait for a lock
\* (weak fairness).  A query that waits for a row lock is queued by the lock
\* manager and gets the lock after the holders before it have ended (strong
\* fairness of the three FOR UPDATE queries).
FairLock ==
  \A p \in Procs :
    /\ SF_vars(AcceptLockRequest(p))
    /\ SF_vars(AcceptLockInstance(p))
    /\ SF_vars(AcceptLockSlot(p))
    /\ WF_vars(AcceptCount(p) \/ AcceptCheckRequester(p) \/ AcceptInsertBooking(p)
               \/ AcceptUpdateStatus(p) \/ AcceptCommit(p))

SpecLock == InitLock /\ [][NextLock]_vars /\ FairLock

(* ---------------- POST /slot-instances/batch ---------------- *)
\* Timestamps are integers; a date is DayLen consecutive timestamps, as the
\* UTC date s.toISOString().split("T")[0] of a timestamp.
DateOf(ts) == ts \div DayLen

\* new Date(): the instant of the call, during the server's current date
\* Today both in UTC and in every time zone of TimeZones
Now == Today * DayLen + 1

\* d.setHours(0, 0, 0, 0) moves d to the midnight of the local date, and
\* d.toISOString().split("T")[0] is the UTC date of that instant
todayIso == DateOf(((Now + tz) \div DayLen) * DayLen - tz)

\* the helper with < for <=: intervals that only touch count as overlapping
overlaps_closed(aStart, aEnd, bStart, bEnd) ==
  ~(aEnd < bStart \/ bEnd < aStart)

\* overlap helper: !(aEnd <= bStart || bEnd <= aStart)
overlaps(aStart, aEnd, bStart, bEnd) ==
  ~(aEnd <= bStart \/ bEnd <= aStart)

\* the 400 checks before the transaction, in the order of the code
Validate(date, ranges) ==
  IF Len(ranges) = 0 THEN "Missing"
  ELSE IF date < todayIso THEN "PastDate"
  ELSE LET bad(r) == r.start_ts >= r.end_ts \/ DateOf(r.start_ts) # date \/ DateOf(r.end_ts) # date
       IN  IF \A k \in 1..Len(ranges) : ~bad(ranges[k]) THEN "valid"
           ELSE LET k == CHOOSE j \in 1..Len(ranges) :
                           bad(ranges[j]) /\ \A i \in 1..(j - 1) : ~bad(ranges[i])
                IN  IF ranges[k].start_ts >= ranges[k].end_ts
                    THEN "InvalidRange" ELSE "NotOnDate"

\* SELECT si.start_ts, si.end_ts FROM slot_instances si LEFT JOIN slots s ...
\* WHERE si.date = $1 AND COALESCE(si.created_by, s.professor_id) = $2
ExistingFor(date, professorId) ==
  {[start |-> si.start_ts, end |-> si.end_ts] :
     si \in {x \in slot_instances : x.date = date /\ ResolvedOwner(x) = professorId}}

\* the check without its inner loop over the later ranges of the batch
BatchOverlap_existingOnly(ranges, existing) ==
  \E i \in 1..Len(ranges) :
    \E ex \in existing :
      ~(ranges[i].end_ts <= ex.start \/ ex.end <= ranges[i].start_ts)

\* the double loop of the overlap check: TRUE when it answers 409
BatchOverlap(ranges, existing) ==
  \E i \in 1..Len(ranges) :
    \/ \E ex \in existing :
         overlaps(ranges[i].start_ts, ranges[i].end_ts, ex.start, ex.end)
    \/ \E j \in (i + 1)..Len(ranges) :
         overlaps(ranges[i].start_ts, ranges[i].end_ts, ranges[j].start_ts, ranges[j].end_ts)

\* a response was sent; the call's date, ranges and the rows it read are kept
\* to tell what it answered to
BatchRespond(b, r) == [b EXCEPT !.pc = "done", !.res = r, !.inserted = 0]

InFlightRanges(p) ==
  IF batch[p].pc \in {"select", "insert", "commit"} THEN Len(batch[p].ranges) ELSE 0

RECURSIVE SumInFlight(_)
SumInFlight(ps) ==
  IF ps = {} THEN 0
  ELSE LET p == CHOOSE q \in ps : TRUE IN InFlightRanges(p) + SumInFlight(ps \ {p})

\* validation, then pool.connect() and BEGIN
BatchBegin(p, professorId, date, ranges) ==
  /\ batch[p].pc = "idle"
  /\ Cardinality(slot_instances) + SumInFlight(Procs) + Len(ranges) <= MaxInst
  /\ batch' = [batch EXCEPT ![p] =
       IF Validate(date, ranges) # "valid" THEN BatchRespond(BatchIdle, Validate(date, ranges))
       ELSE [BatchIdle EXCEPT !.pc = "select", !.professorId = professorId,
                              !.date = date, !.ranges = ranges]]
  /\ UNCHANGED <<users, slots, slot_instances, booking_requests, bookings, proc, tz, pool, followVars, otpVars>>

\* the SELECT of the existing instances and the overlap loops (ROLLBACK, 409)
BatchSelectExisting(p) ==
  /\ batch[p].pc = "select"
  /\ LET b        == batch[p]
         existing == ExistingFor(b.date, b.professorId)
     IN  batch' = [batch EXCEPT ![p] =
           IF BatchOverlap(b.ranges, existing)
           THEN BatchRespond([b EXCEPT !.existing = existing], "Conflict")
           ELSE [b EXCEPT !.pc = "insert", !.existing = existing]]
  /\ UNCHANGED <<users, slots, slot_instances, booking_requests, bookings, proc, tz, pool, followVars, otpVars>>

\* one INSERT INTO slot_instances of the loop (private until COMMIT)
BatchInsertRange(p) ==
  /\ batch[p].pc = "insert"
  /\ batch' = [batch EXCEPT ![p].inserted = @ + 1,
                            ![p].pc = IF batch[p].inserted + 1 = Len(batch[p].ranges)
                                      THEN "commit" ELSE "insert"]
  /\ UNCHANGED <<users, slots, slot_instances, booking_requests, bookings, proc, tz, pool, followVars, otpVars>>

\* the rows the transaction has inserted: r.slot_id || null, r.capacity || 0,
\* created_by = professorId
InsertedRows(b) ==
  {[id |-> Cardinality(slot_instances) + k, slot_id |-> b.ranges[k].slot_id, date |-> b.date,
    start_ts |-> b.ranges[k].start_ts, end_ts |-> b.ranges[k].end_ts,
    capacity |-> b.ranges[k].capacity, created_by |-> b.professorId] : k \in 1..b.inserted}

\* a ROLLBACK that does not undo the INSERTs already made
InstancesAfter_partial(b, committed) ==
  slot_instances \cup InsertedRows(b)

\* the table after the transaction ends
InstancesAfter(b, committed) ==
  IF committed THEN slot_instances \cup InsertedRows(b) ELSE slot_instances

\* COMMIT, 201 { inserted }
BatchCommit(p) ==
  /\ batch[p].pc = "commit"
  /\ slot_instances' = InstancesAfter(batch[p], TRUE)
  /\ batch' = [batch EXCEPT ![p] = BatchRespond([batch[p] EXCEPT !.existing = {}], "created")]
  /\ UNCHANGED <<users, slots, booking_requests, bookings, proc, tz, pool, followVars, otpVars>>

\* a query throws: inner catch ROLLBACK, rethrow, outer catch answers 500
BatchStoreError(p) ==
  /\ batch[p].pc \in {"select", "insert", "commit"}
  /\ slot_instances' = InstancesAfter(batch[p], FALSE)
  /\ batch' = [batch EXCEPT ![p] =
       [BatchIdle EXCEPT !.pc = "done", !.res = "StoreError",
                         !.professorId = batch[p].professorId,
                         !.inserted = batch[p].inserted]]
  /\ UNCHANGED <<users, slots, booking_requests, bookings, proc, tz, pool, followVars, otpVars>>

BatchFinish(p) ==
  /\ batch[p].pc = "done"
  /\ batch' = [batch EXCEPT ![p] = BatchIdle]
  /\ UNCHANGED <<users, slots, slot_instances, booking_requests, bookings, proc, tz, pool, followVars, otpVars>>

\* the timestamps a range of today may name: from the first of today to the
\* first of tomorrow
Timestamps == (Today * DayLen)..(Today * DayLen + DayLen)
\* the ranges a caller may send with a date: any two timestamps from the
\* first of that date to the first of the next, with or without a slot_id
Ranges(slot_id, date) ==
  {r \in [start_ts : (date * DayLen)..(date * DayLen + DayLen),
          end_ts : (date * DayLen)..(date * DayLen + DayLen),
          slot_id : {slot_id}, capacity : {0}] :
     r.start_ts <= r.end_ts}
RangeLists(slot_id, date) ==
  UNION {[1..n -> Ranges(slot_id, date)] : n \in 1..MaxBatch}
\* the callers: P names template 2 (of Q) in its ranges, Q names no template
BatchCallers ==
  {[professorId |-> "P", slot_id |-> 2], [professorId |-> "Q", slot_id |-> NoId]}
Dates == {Today - 1, Today}

\* the table before the batches: empty, or one instance materialized from
\* template 1 (of P) with created_by NULL
InitBatchInstances ==
  {{}, {[id |-> 1, slot_id |-> 1, date |-> Today, start_ts |-> Today * DayLen,
         end_ts |-> Today * DayLen + 1, capacity |-> 0, created_by |-> NoUser]}}

InitBatch ==
  /\ users = Ids
  /\ slots = InitSlots
  /\ slot_instances \in InitBatchInstances
  /\ booking_requests = {}
  /\ bookings = <<>>
  /\ proc = [p \in Procs |-> Idle]
  /\ batch = [p \in Procs |-> BatchIdle]
  /\ tz = 0
  /\ pool = {}
  /\ NoFollows
  /\ NoOtps

NextBatch ==
  \E p \in Procs :
    \/ \E c \in BatchCallers, d \in Dates :
         \E rs \in RangeLists(c.slot_id, d) : BatchBegin(p, c.professorId, d, rs)
    \/ BatchSelectExisting(p)
    \/ BatchInsertRange(p)
    \/ BatchCommit(p)
    \/ BatchStoreError(p)
    \/ BatchFinish(p)

SpecBatch == InitBatch /\ [][NextBatch]_vars

\* The batch route of a server in any time zone, on an empty table, called
\* by one provider for yesterday and for today.
InitDate ==
  /\ users = Ids
  /\ slots = InitSlots
  /\ slot_instances = {}
  /\ booking_requests = {}
  /\ bookings = <<>>
  /\ proc = [p \in Procs |-> Idle]
  /\ batch = [p \in Procs |-> BatchIdle]
  /\ tz \in TimeZones
  /\ pool = {}
  /\ NoFollows
  /\ NoOtps

NextDate ==
  \E p \in Procs :
    \/ \E d \in Dates : \E rs \in RangeLists(NoId, d) : BatchBegin(p, "Q", d, rs)
    \/ BatchSelectExisting(p)
    \/ BatchInsertRange(p)
    \/ BatchCommit(p)
    \/ BatchStoreError(p)
    \/ BatchFinish(p)

SpecDate == InitDate /\ [][NextDate]_vars

(* ---------------- a ROLLBACK that fails ---------------- *)
\* Both catch blocks swallow the error of their ROLLBACK ("ignore rollback
\* errors"), and finally gives the client back with client.release(): the
\* client is not destroyed.  The transaction is then still open on a pooled
\* client ("open"), or the connection was lost and the store has ended the
\* transaction itself ("aborted").
RollbackErrorOutcomes == {"open", "aborted"}

\* the pool after a client is released whose ROLLBACK failed
PoolAfter(o, br, si, slot) ==
  IF o = "open" THEN pool \cup {[br |-> br, si |-> si, slot |-> slot]} ELSE pool

\* accept: a query throws, and the ROLLBACK of the catch block throws too
AcceptRollbackError(p) ==
  /\ proc[p].op = "accept"
  /\ proc[p].pc \in ReqLockPcs \cup {"lockReq"}
  /\ \E o \in RollbackErrorOutcomes :
       pool' = PoolAfter(o, proc[p].br.id, proc[p].si.id, proc[p].slot.id)
  /\ \E r \in StoreErrorOutcomes : proc' = [proc EXCEPT ![p] = Respond(proc[p], r)]
  /\ UNCHANGED <<users, slots, slot_instances, booking_requests, bookings, batch, tz, followVars, otpVars>>

\* batch: a query throws, and the ROLLBACK of the inner catch throws too
BatchRollbackError(p) ==
  /\ batch[p].pc \in {"select", "insert", "commit"}
  /\ \E o \in RollbackErrorOutcomes : pool' = PoolAfter(o, NoId, NoId, NoId)
  /\ batch' = [batch EXCEPT ![p] =
       [BatchIdle EXCEPT !.pc = "done", !.res = "StoreError",
                         !.professorId = batch[p].professorId,
                         !.inserted = batch[p].inserted]]
  /\ UNCHANGED <<users, slots, slot_instances, booking_requests, bookings, proc, tz, followVars, otpVars>>

\* the one batch sent, by Q, who owns no instance of the store: a range of today
TxRanges ==
  <<[start_ts |-> Today * DayLen, end_ts |-> Today * DayLen + 1, slot_id |-> NoId, capacity |-> 0]>>

\* The accept route, and the batch route on the first handler, on the store
\* of the concurrent accepts, with queries that may throw at any point,
\* ROLLBACK included.
NextTx ==
  \/ \E p \in Procs :
       \/ \E r \in RequestIds, u \in LockCallers : AcceptBegin(p, r, u)
       \/ AcceptLockRequest(p)
       \/ AcceptLockInstance(p)
       \/ AcceptLockSlot(p)
       \/ AcceptCount(p)
       \/ AcceptCheckRequester(p)
       \/ AcceptInsertBooking(p)
       \/ AcceptUpdateStatus(p)
       \/ AcceptCommit(p)
       \/ AcceptStoreError(p)
       \/ AcceptRollbackError(p)
       \/ Finish(p)
  \/ BatchBegin(1, "Q", Today, TxRanges)
  \/ BatchSelectExisting(1)
  \/ BatchInsertRange(1)
  \/ BatchCommit(1)
  \/ BatchStoreError(1)
  \/ BatchRollbackError(1)
  \/ BatchFinish(1)

SpecTx == InitLock /\ [][NextTx]_vars

(* ---------------- follow routes (followRoutes.js) ---------------- *)
\* Each call names a requester and a target; the authenticated user
\* (req.user.id, always the id of a user) is the target of accept and reject,
\* the requester of cancel, unfollow and send.
\* accept and unfollow run a transaction (BEGIN, three UPDATEs, COMMIT):
\* the rows they update stay locked, and the new values stay private, until
\* the transaction ends.  reject, cancel and send run single statements.

\* the route parameter is a well-formed uuid
isValidUUID(id) == id \in Ids

\* program points at which the transaction holds the lock of the
\* follow_requests row, of the target's users row, of the requester's users row
FollowRowPcs       == {"followers", "following", "commit"}
FollowTargetPcs    == {"following", "commit"}
FollowRequesterPcs == {"commit"}

FollowHoldsRow(p, c) ==
  follow[p].pc \in FollowRowPcs /\ <<follow[p].requester, follow[p].target>> = c

FollowHoldsUser(p, u) ==
  \/ follow[p].pc \in FollowTargetPcs /\ follow[p].target = u
  \/ follow[p].pc \in FollowRequesterPcs /\ follow[p].requester = u

\* an UPDATE of follow_requests that never waits for the row lock
FollowRowLocked_unlocked(c) == FALSE

FollowRowLocked(c) == \E p \in Procs : FollowHoldsRow(p, c)

\* an UPDATE of users that never waits for the row lock
FollowUserLocked_unlocked(p, u) == FALSE

\* another transaction holds the lock of the users row
FollowUserLocked(p, u) == \E q \in Procs \ {p} : FollowHoldsUser(q, u)

\* GREATEST(a, b)
GREATEST(a, b) == IF a >= b THEN a ELSE b

\* a response was sent; a transaction that did not commit was rolled back
FollowRespond(l, r) ==
  [FollowIdle EXCEPT !.op = l.op, !.pc = "done", !.res = r]

\* UPDATE follow_requests SET status = to WHERE requester_id = $1 AND
\* target_id = $2 AND status = from : the statement waits while a row it
\* matches is locked, then looks at the committed row
FollowCanUpdate(c, from) == ~(follow_requests[c] = from /\ FollowRowLocked(c))

\* POST /:requesterId/accept : validation, pool.connect() and BEGIN
FollowAcceptBegin(p, requester, target) ==
  /\ follow[p].pc = "idle"
  /\ target \in Ids
  /\ follow' = [follow EXCEPT ![p] =
       LET l == [FollowIdle EXCEPT !.op = "accept", !.requester = requester, !.target = target]
       IN  IF ~isValidUUID(requester) THEN FollowRespond(l, "InvalidId")
           ELSE IF requester = target THEN FollowRespond(l, "InvalidOperation")
           ELSE [l EXCEPT !.pc = "update"]]
  /\ UNCHANGED <<users, slots, slot_instances, booking_requests, bookings, proc, batch, tz, pool,
                 follow_requests, followers_count, following_count, otpVars>>

\* POST /:targetId/unfollow : validation, pool.connect() and BEGIN
FollowUnfollowBegin(p, requester, target) ==
  /\ follow[p].pc = "idle"
  /\ requester \in Ids
  /\ follow' = [follow EXCEPT ![p] =
       LET l == [FollowIdle EXCEPT !.op = "unfollow", !.requester = requester, !.target = target]
       IN  IF ~isValidUUID(target) THEN FollowRespond(l, "InvalidId")
           ELSE [l EXCEPT !.pc = "update"]]
  /\ UNCHANGED <<users, slots, slot_instances, booking_requests, bookings, proc, batch, tz, pool,
                 follow_requests, followers_count, following_count, otpVars>>

\* the status that the first UPDATE of the transaction looks for
FollowFrom(op) == IF op = "accept" THEN "pending" ELSE "accepted"

\* the status that the first UPDATE of the transaction sets
FollowTo(op) == IF op = "accept" THEN "accepted" ELSE "cancelled"

\* the two counters move by this much
FollowDelta(op) == IF op = "accept" THEN 1 ELSE -1

\* UPDATE follow_requests SET status = ... RETURNING id ; rowCount === 0 ->
\* ROLLBACK and 400
FollowUpdateRequest(p) ==
  /\ follow[p].op \in {"accept", "unfollow"} /\ follow[p].pc = "update"
  /\ LET l == follow[p]
         c == <<l.requester, l.target>>
     IN  /\ FollowCanUpdate(c, FollowFrom(l.op))
         /\ follow' = [follow EXCEPT ![p] =
              IF follow_requests[c] = FollowFrom(l.op)
              THEN [l EXCEPT !.pc = "followers"]
              ELSE FollowRespond(l, IF l.op = "accept" THEN "NoPending" ELSE "NoAccepted")]
  /\ UNCHANGED <<users, slots, slot_instances, booking_requests, bookings, proc, batch, tz, pool,
                 follow_requests, followers_count, following_count, otpVars>>

\* UPDATE users SET followers_count = GREATEST(followers_count +- 1, 0)
\*   WHERE id = target
FollowUpdateFollowers(p) ==
  /\ follow[p].op \in {"accept", "unfollow"} /\ follow[p].pc = "followers"
  /\ ~FollowUserLocked(p, follow[p].target)
  /\ follow' = [follow EXCEPT
       ![p].pc = "following",
       ![p].followers = GREATEST(followers_count[follow[p].target] + FollowDelta(follow[p].op), 0)]
  /\ UNCHANGED <<users, slots, slot_instances, booking_requests, bookings, proc, batch, tz, pool,
                 follow_requests, followers_count, following_count, otpVars>>

\* UPDATE users SET following_count = GREATEST(following_count +- 1, 0)
\*   WHERE id = requester
FollowUpdateFollowing(p) ==
  /\ follow[p].op \in {"accept", "unfollow"} /\ follow[p].pc = "following"
  /\ ~FollowUserLocked(p, follow[p].requester)
  /\ follow' = [follow EXCEPT
       ![p].pc = "commit",
       ![p].following = GREATEST(following_count[follow[p].requester] + FollowDelta(follow[p].op), 0)]
  /\ UNCHANGED <<users, slots, slot_instances, booking_requests, bookings, proc, batch, tz, pool,
                 follow_requests, followers_count, following_count, otpVars>>

\* COMMIT: the three private writes become the committed rows; then the
\* event, the notification and res.json({ status })
FollowCommit(p) ==
  /\ follow[p].op \in {"accept", "unfollow"} /\ follow[p].pc = "commit"
  /\ LET l == follow[p]
     IN  /\ follow_requests' = [follow_requests EXCEPT ![<<l.requester, l.target>>] = FollowTo(l.op)]
         /\ followers_count' = [followers_count EXCEPT ![l.target] = l.followers]
         /\ following_count' = [following_count EXCEPT ![l.requester] = l.following]
         /\ follow' = [follow EXCEPT ![p] = FollowRespond(l, FollowTo(l.op))]
  /\ UNCHANGED <<users, slots, slot_instances, booking_requests, bookings, proc, batch, tz, pool, otpVars>>

\* a query of the transaction throws (a deadlock found by the store among
\* them): catch -> ROLLBACK, 500
FollowStoreError(p) ==
  /\ follow[p].op \in {"accept", "unfollow"}
  /\ follow[p].pc \in {"update", "followers", "following", "commit"}
  /\ follow' = [follow EXCEPT ![p] = FollowRespond(follow[p], "Failed")]
  /\ UNCHANGED <<users, slots, slot_instances, booking_requests, bookings, proc, batch, tz, pool,
                 follow_requests, followers_count, following_count, otpVars>>

\* POST /:requesterId/reject and POST /:targetId/cancel : one UPDATE of the
\* pending row
FollowSettle(p, op, requester, target) ==
  /\ follow[p].pc = "idle"
  /\ (IF op = "reject" THEN target ELSE requester) \in Ids
  /\ LET l  == [FollowIdle EXCEPT !.op = op, !.requester = requester, !.target = target]
         id == IF op = "reject" THEN requester ELSE target
         c  == <<requester, target>>
         to == IF op = "reject" THEN "rejected" ELSE "cancelled"
     IN  IF ~isValidUUID(id)
         THEN /\ follow' = [follow EXCEPT ![p] = FollowRespond(l, "InvalidId")]
              /\ UNCHANGED follow_requests
         ELSE /\ FollowCanUpdate(c, "pending")
              /\ follow_requests' =
                   IF follow_requests[c] = "pending"
                   THEN [follow_requests EXCEPT ![c] = to] ELSE follow_requests
              /\ follow' = [follow EXCEPT ![p] =
                   FollowRespond(l, IF follow_requests[c] = "pending" THEN to ELSE "NoPending")]
  /\ UNCHANGED <<users, slots, slot_instances, booking_requests, bookings, proc, batch, tz, pool,
                 followers_count, following_count, otpVars>>

FollowReject(p, requester, target) == FollowSettle(p, "reject", requester, target)

FollowCancel(p, requester, target) == FollowSettle(p, "cancel", requester, target)

\* POST /:targetId : INSERT ... VALUES ($1, $2, 'pending') ON CONFLICT
\* (requester_id, target_id) DO UPDATE SET status = 'pending'
\*   WHERE follow_requests.status IN ('rejected','cancelled') RETURNING status
\* (a conflicting row is locked first, so the statement waits for its lock)
FollowSend(p, requester, target) ==
  /\ follow[p].pc = "idle"
  /\ requester \in Ids
  /\ LET l == [FollowIdle EXCEPT !.op = "send", !.requester = requester, !.target = target]
         c == <<requester, target>>
     IN  IF ~isValidUUID(target)
         THEN /\ follow' = [follow EXCEPT ![p] = FollowRespond(l, "InvalidId")]
              /\ UNCHANGED follow_requests
         ELSE IF requester = target
         THEN /\ follow' = [follow EXCEPT ![p] = FollowRespond(l, "CannotFollowYourself")]
              /\ UNCHANGED follow_requests
         ELSE /\ ~FollowRowLocked(c)
              /\ IF follow_requests[c] \in {"none", "rejected", "cancelled"}
                 THEN /\ follow_requests' = [follow_requests EXCEPT ![c] = "pending"]
                      /\ follow' = [follow EXCEPT ![p] = FollowRespond(l, "pending")]
                 ELSE /\ UNCHANGED follow_requests
                      /\ follow' = [follow EXCEPT ![p] = [l EXCEPT !.pc = "status"]]
  /\ UNCHANGED <<users, slots, slot_instances, booking_requests, bookings, proc, batch, tz, pool,
                 followers_count, following_count, otpVars>>

\* no row was returned: SELECT status FROM follow_requests WHERE ... LIMIT 1
FollowSendStatus(p) ==
  /\ follow[p].op = "send" /\ follow[p].pc = "status"
  /\ LET l == follow[p]
         s == follow_requests[<<l.requester, l.target>>]
     IN  follow' = [follow EXCEPT ![p] = FollowRespond(l, IF s = "none" THEN "pending" ELSE s)]
  /\ UNCHANGED <<users, slots, slot_instances, booking_requests, bookings, proc, batch, tz, pool,
                 follow_requests, followers_count, following_count, otpVars>>

\* the handler is free to serve the next call
FollowFinish(p) ==
  /\ follow[p].pc = "done"
  /\ follow' = [follow EXCEPT ![p] = FollowIdle]
  /\ UNCHANGED <<users, slots, slot_instances, booking_requests, bookings, proc, batch, tz, pool,
                 follow_requests, followers_count, following_count, otpVars>>

\* the calls made: two users ask to follow P, P asks to follow one of
\* them, one call names the caller and one carries a malformed id
FollowCalls ==
  {<<"Q", "P">>, <<"A", "P">>, <<"P", "Q">>, <<"P", "P">>, <<"x", "P">>, <<"P", "x">>}

InitFollow ==
  /\ users = Ids
  /\ slots = {}
  /\ slot_instances = {}
  /\ booking_requests = {}
  /\ bookings = <<>>
  /\ proc = [p \in Procs |-> Idle]
  /\ batch = [p \in Procs |-> BatchIdle]
  /\ tz = 0
  /\ pool = {}
  /\ NoFollows
  /\ NoOtps

NextFollow ==
  \E p \in Procs :
    \/ \E c \in FollowCalls :
         \/ FollowSend(p, c[1], c[2])
         \/ FollowAcceptBegin(p, c[1], c[2])
         \/ FollowReject(p, c[1], c[2])
         \/ FollowCancel(p, c[1], c[2])
         \/ FollowUnfollowBegin(p, c[1], c[2])
    \/ FollowSendStatus(p)
    \/ FollowUpdateRequest(p)
    \/ FollowUpdateFollowers(p)
    \/ FollowUpdateFollowing(p)
    \/ FollowCommit(p)
    \/ FollowStoreError(p)
    \/ FollowFinish(p)

SpecFollow == InitFollow /\ [][NextFollow]_vars

(* ---------------- OTP routes (otpRoutes.js, forgotPasswordRoutes.js) ---------------- *)
\* Each file keeps a Map from email to { otp, expires } in the memory of the
\* server process.  verify-otp has no await: it runs as one step.  A user is
\* named by the email of its users row in this part.

MaxNow     == 3      \* the clock stops here
OTP_EXPIRY == 2      \* 5 minutes, in ticks of the clock

\* what generateOtp() returns: a string of six digits
Codes == {"111111", "222222"}

\* values of the JSON body: a field is a string, a number, or missing
JsonString(s) == [type |-> "string", value |-> s]
JsonNumber(s) == [type |-> "number", value |-> s]
Undefined     == [type |-> "undefined", value |-> ""]

\* req.body.email and req.body.otp of the calls made
Emails        == {"P", "A"}
BodyEmails    == {JsonString(e) : e \in Emails} \cup {Undefined}
SubmittedOtps == {JsonString(c) : c \in Codes} \cup {JsonNumber("111111"), Undefined}

\* !value
Falsy(v) == v.type = "undefined" \/ v.value = ""

\* record.otp !== otp, negated: a stored string equals only the same string
StrictEquals(stored, v) == v.type = "string" /\ v.value = stored

\* the answer of an OTP route
OtpAnswer(route, email, o, status, verified) ==
  [route |-> route, email |-> email.value, otp |-> o.value, status |-> status, verified |-> verified]

\* otpStore.set(email, { otp, expires: Date.now() + OTP_EXPIRY })
OtpSet(store, email, code) ==
  [store EXCEPT ![email] = [otp |-> code, expires |-> now + OTP_EXPIRY]]

\* POST /send-otp of otpRoutes.js: the OTP is stored before the mail is
\* sent, so it stays stored when resend.emails.send throws (500)
OtpSend(email) ==
  /\ IF Falsy(email)
     THEN /\ otp' = OtpAnswer("send-otp", email, Undefined, 400, FALSE)
          /\ UNCHANGED otpStore
     ELSE \E code \in Codes, status \in {200, 500} :
            /\ otpStore' = OtpSet(otpStore, email.value, code)
            /\ otp' = OtpAnswer("send-otp", email, Undefined, status, FALSE)
  /\ UNCHANGED <<users, slots, slot_instances, booking_requests, bookings, proc, batch, tz, pool,
                 followVars, otpStoreForgot, now>>

\* POST /send-otp of forgotPasswordRoutes.js: only for a registered email
ForgotSend(email) ==
  /\ IF Falsy(email)
     THEN /\ otp' = OtpAnswer("forgot/send-otp", email, Undefined, 400, FALSE)
          /\ UNCHANGED otpStoreForgot
     ELSE IF email.value \notin users
     THEN /\ otp' = OtpAnswer("forgot/send-otp", email, Undefined, 400, FALSE)
          /\ UNCHANGED otpStoreForgot
     ELSE \/ /\ otp' = OtpAnswer("forgot/send-otp", email, Undefined, 500, FALSE)
             /\ UNCHANGED otpStoreForgot
          \/ \E code \in Codes, status \in {200, 500} :
               /\ otpStoreForgot' = OtpSet(otpStoreForgot, email.value, code)
               /\ otp' = OtpAnswer("forgot/send-otp", email, Undefined, status, FALSE)
  /\ UNCHANGED <<users, slots, slot_instances, booking_requests, bookings, proc, batch, tz, pool,
                 followVars, otpStore, now>>

\* the checks of verify-otp on the stored record, in the order of the code
OtpVerifyResult(record, o) ==
  IF record = NoOtp THEN "NotFound"
  ELSE IF now > record.expires THEN "Expired"
  ELSE IF ~StrictEquals(record.otp, o) THEN "Invalid"
  ELSE "Verified"

\* a verify-otp that keeps the record of a verified code
OtpAfterVerify_kept(store, email, r) ==
  IF r = "Expired" THEN [store EXCEPT ![email] = NoOtp] ELSE store

\* otpStore.delete(email) on the expired and on the verified branch
OtpAfterVerify(store, email, r) ==
  IF r \in {"Expired", "Verified"} THEN [store EXCEPT ![email] = NoOtp] ELSE store

\* POST /verify-otp of otpRoutes.js: every failure is answered 400
OtpVerify(email, o) ==
  /\ IF Falsy(email) \/ Falsy(o)
     THEN /\ otp' = OtpAnswer("verify-otp", email, o, 400, FALSE)
          /\ UNCHANGED otpStore
     ELSE LET r == OtpVerifyResult(otpStore[email.value], o)
          IN  /\ otpStore' = OtpAfterVerify(otpStore, email.value, r)
              /\ otp' = OtpAnswer("verify-otp", email, o,
                                  IF r = "Verified" THEN 200 ELSE 400, r = "Verified")
  /\ UNCHANGED <<users, slots, slot_instances, booking_requests, bookings, proc, batch, tz, pool,
                 followVars, otpStoreForgot, now>>

\* POST /verify-otp of forgotPasswordRoutes.js: a failure on the record is
\* answered 200 with verified: false
ForgotVerify(email, o) ==
  /\ IF Falsy(email) \/ Falsy(o)
     THEN /\ otp' = OtpAnswer("forgot/verify-otp", email, o, 400, FALSE)
          /\ UNCHANGED otpStoreForgot
     ELSE LET r == OtpVerifyResult(otpStoreForgot[email.value], o)
          IN  /\ otpStoreForgot' = OtpAfterVerify(otpStoreForgot, email.value, r)
              /\ otp' = OtpAnswer("forgot/verify-otp", email, o, 200, r = "Verified")
  /\ UNCHANGED <<users, slots, slot_instances, booking_requests, bookings, proc, batch, tz, pool,
                 followVars, otpStore, now>>

\* time passes
Tick ==
  /\ now < MaxNow
  /\ now' = now + 1
  /\ UNCHANGED <<users, slots, slot_instances, booking_requests, bookings, proc, batch, tz, pool,
                 followVars, otpStore, otpStoreForgot, otp>>

\* P is registered, A is not
InitOtp ==
  /\ users = Ids \ {"A"}
  /\ slots = {}
  /\ slot_instances = {}
  /\ booking_requests = {}
  /\ bookings = <<>>
  /\ proc = [p \in Procs |-> Idle]
  /\ batch = [p \in Procs |-> BatchIdle]
  /\ tz = 0
  /\ pool = {}
  /\ NoFollows
  /\ NoOtps

NextOtp ==
  \/ \E email \in BodyEmails : OtpSend(email)
  \/ \E email \in BodyEmails : ForgotSend(email)
  \/ \E email \in BodyEmails, o \in SubmittedOtps : OtpVerify(email, o)
  \/ \E email \in BodyEmails, o \in SubmittedOtps : ForgotVerify(email, o)
  \/ Tick

SpecOtp == InitOtp /\ [][NextOtp]_vars

(***************************************************************************)
(* Properties                                                              *)
(***************************************************************************)
\* the owner and the capacity of an instance as the data model states them:
\* createdBy if present, else the template's owner; own capacity if > 0,
\* else the template's if > 0, else 0 for unbounded
SpecOwner(si) ==
  IF si.created_by # NoUser THEN si.created_by
  ELSE IF \E t \in slots : t.id = si.slot_id
       THEN (CHOOSE t \in slots : t.id = si.slot_id).professor_id
  ELSE NoUser

SpecCapacity(si) ==
  IF si.capacity > 0 THEN si.capacity
  ELSE IF \E t \in slots : t.id = si.slot_id /\ t.capacity > 0
       THEN (CHOOSE t \in slots : t.id = si.slot_id).capacity
  ELSE 0

BookingsOf(requestId) ==
  {k \in 1..Len(bookings) : bookings[k].request_id = requestId}

AcceptDone(p, r) == proc[p].op = "accept" /\ proc[p].pc = "done" /\ proc[p].res = r

\* C1 (capacity invariant): in every committed state, an instance whose
\* effective capacity C is bounded (C > 0) has at most C Booking rows,
\* whatever the interleaving of the accept transactions.
C1_CapacityInvariant ==
  \A si \in slot_instances :
    SpecCapacity(si) > 0 => BookingCount(si.id) <= SpecCapacity(si)

\* C1 witness: one accept is about to commit the booking that fills the
\* instance while an accept of another request of that instance waits for
\* the instance's row lock.
C1_Witness ==
  \E p, q \in Procs :
    /\ proc[p].op = "accept" /\ proc[p].pc = "commit"
    /\ SpecCapacity(proc[p].si) > 0
    /\ BookingCount(proc[p].si.id) + 1 = SpecCapacity(proc[p].si)
    /\ proc[q].op = "accept" /\ proc[q].pc = "lockInst"
    /\ proc[q].br.slot_instance_id = proc[p].si.id
    /\ proc[q].br.id # proc[p].br.id

\* results of POST /requests/:id/accept that only a caller who passed the
\* ownership check can get
OwnerOutcomes == {"ok", "CapacityFull", "RequesterMissing"}

\* C2 as stated (no double booking): once two accept calls of the owner on
\* the same request have returned, exactly one Booking references the
\* request and a call that did not succeed failed with NotPending.
C2_Original ==
  \A p, q \in Procs :
    ( /\ p # q
      /\ proc[p].op = "accept" /\ proc[p].pc = "done"
      /\ proc[q].op = "accept" /\ proc[q].pc = "done"
      /\ proc[p].arg = proc[q].arg
      /\ proc[p].res \in OwnerOutcomes
      /\ proc[q].res \in OwnerOutcomes \cup {"NotPending"} )
    => /\ Cardinality(BookingsOf(proc[p].arg)) = 1
       /\ proc[p].res = "ok" \/ proc[p].res = "NotPending"
       /\ proc[q].res = "ok" \/ proc[q].res = "NotPending"

\* C2 as amended: at most one Booking references a request and at most one
\* accept of it succeeds; a successful accept leaves exactly one Booking, no
\* accept gets past the status check of a request that has a Booking, and
\* NotPending is answered only for a request that is not pending.
C2_NoDoubleBooking ==
  /\ \A r \in booking_requests : Cardinality(BookingsOf(r.id)) <= 1
  /\ \A p \in Procs : AcceptDone(p, "ok") => Cardinality(BookingsOf(proc[p].arg)) = 1
  /\ \A p, q \in Procs :
       p # q /\ AcceptDone(p, "ok") /\ AcceptDone(q, "ok") => proc[p].arg # proc[q].arg
  /\ \A p \in Procs : \A r \in booking_requests :
       HoldsReq(p, r.id) => BookingsOf(r.id) = {}
  /\ \A p \in Procs :
       AcceptDone(p, "NotPending") => RowById(booking_requests, proc[p].arg).status # "pending"

\* C2 witness: two accepts of one request have returned, one with the
\* booking and one with NotPending, and one Booking references the request.
C2_Witness ==
  \E p, q \in Procs :
    /\ AcceptDone(p, "ok") /\ AcceptDone(q, "NotPending")
    /\ proc[p].arg = proc[q].arg
    /\ Cardinality(BookingsOf(proc[p].arg)) = 1

\* C3 as stated (terminal states): a status changes only from pending, to
\* accepted or to rejected; accepted and rejected are never left.
C3_Original ==
  [][\A r \in booking_requests : \A r2 \in booking_requests' :
       (r2.id = r.id /\ r2.status # r.status)
       => (r.status = "pending" /\ r2.status \in {"accepted", "rejected"})]_vars

\* C4 as stated (booking/status correspondence): a request has a Booking iff
\* it is accepted, and an accepted request has exactly one.
C4_Original ==
  \A r \in booking_requests :
    /\ r.status = "accepted" => Cardinality(BookingsOf(r.id)) = 1
    /\ r.status # "accepted" => BookingsOf(r.id) = {}

\* C8 as stated (ownership resolution in accept): an accept gets past the
\* ownership check only when the caller is the resolved owner: createdBy
\* whenever it is set, else the template's owner.
C8_Original ==
  \A p \in Procs :
    (proc[p].op = "accept" /\ proc[p].pc \in {"count", "requester", "insert", "update", "commit"})
    => proc[p].user = SpecOwner(proc[p].si)

\* C9 as stated (reject contract): the ownership query of reject answers
\* NotFound for a missing request, Forbidden for a caller who is not the
\* resolved owner of the request's instance, NotPending for a request that is
\* not pending, and lets the resolved owner of a pending request go on to
\* the update; the failures change nothing.
C9_Original ==
  [][\A p \in Procs :
       (proc[p].op = "reject" /\ proc[p].pc = "rejSelect" /\ proc'[p].pc # "rejSelect")
       => LET r  == RowById(booking_requests, proc[p].arg)
              si == RowById(slot_instances, r.slot_instance_id)
          IN  /\ booking_requests' = booking_requests /\ bookings' = bookings
              /\ IF r.id = NoId THEN proc'[p].res = "NotFound"
                 ELSE IF si.id = NoId \/ SpecOwner(si) # proc[p].user
                      THEN proc'[p].res = "Forbidden"
                 ELSE IF r.status # "pending" THEN proc'[p].res = "NotPending"
                 ELSE proc'[p].pc = "rejUpdate"]_vars

\* C10 (failed accept changes nothing): a step in which an accept call
\* returns anything but the booking leaves the Booking rows and every
\* request's status as they were; and the count query of an instance that
\* is full answers CapacityFull.
C10_FailedAcceptChangesNothing ==
  [][\A p \in Procs :
       /\ ( /\ proc[p].pc # "done"
            /\ proc'[p].op = "accept" /\ proc'[p].pc = "done" /\ proc'[p].res # "ok" )
          => (bookings' = bookings /\ booking_requests' = booking_requests)
       /\ ( /\ proc[p].op = "accept" /\ proc[p].pc = "count" /\ proc'[p].pc # "count"
            /\ proc'[p].res \notin StoreErrorOutcomes
            /\ BookingCount(proc[p].si.id) >= SpecCapacity(proc[p].si) )
          => proc'[p].res = "CapacityFull"]_vars

\* C10 witness: the instance is full, the owner's accept of a second request
\* has answered CapacityFull, that request is still pending and has no
\* Booking.
C10_Witness ==
  \E p \in Procs : \E r \in booking_requests : \E si \in slot_instances :
    /\ AcceptDone(p, "CapacityFull") /\ proc[p].arg = r.id
    /\ r.slot_instance_id = si.id /\ r.status = "pending"
    /\ BookingsOf(r.id) = {}
    /\ SpecCapacity(si) > 0 /\ BookingCount(si.id) = SpecCapacity(si)
    /\ \E r1 \in booking_requests : r1.id # r.id /\ r1.status = "accepted"

\* two half-open intervals share a timestamp
Intersect(s1, e1, s2, e2) == \E t \in s1..(e1 - 1) : s2 <= t /\ t < e2

\* some range of the list meets an instance of the owner on the date, or
\* another range of the list
RangesCollide(ranges, rows) ==
  \E i \in 1..Len(ranges) :
    \/ \E x \in rows :
         Intersect(ranges[i].start_ts, ranges[i].end_ts, x.start, x.end)
    \/ \E j \in 1..Len(ranges) :
         j # i /\ Intersect(ranges[i].start_ts, ranges[i].end_ts,
                            ranges[j].start_ts, ranges[j].end_ts)

OwnedOn(professorId, date) ==
  {[start |-> si.start_ts, end |-> si.end_ts] :
     si \in {x \in slot_instances : x.date = date /\ SpecOwner(x) = professorId}}

\* C5 as stated (non-overlap invariant): no two instances of the same
\* resolved owner on the same date have overlapping [start,end) intervals.
C5_Original ==
  \A a, b \in slot_instances :
    (a.id # b.id /\ a.date = b.date /\ SpecOwner(a) = SpecOwner(b))
    => ~Intersect(a.start_ts, a.end_ts, b.start_ts, b.end_ts)

\* C6 (overlap rejection is all-or-nothing): when the overlap check of a
\* batch runs and a range meets an instance of the caller on that date or
\* another range of the batch, the call answers Conflict, and a call that
\* answers Conflict leaves the slot instances as they were.
C6_AllOrNothing ==
  [][\A p \in Procs :
       /\ ( /\ batch[p].pc = "select" /\ batch'[p].pc # "select"
            /\ batch'[p].res # "StoreError"
            /\ RangesCollide(batch[p].ranges, OwnedOn(batch[p].professorId, batch[p].date)) )
          => batch'[p].res = "Conflict"
       /\ (batch[p].pc # "done" /\ batch'[p].pc = "done" /\ batch'[p].res = "Conflict")
          => slot_instances' = slot_instances]_vars

\* C6 witness: a batch of two ranges answered Conflict; one range meets an
\* existing instance, the other meets nothing, and no row of the caller
\* holds that other range.
C6_Witness ==
  \E p \in Procs :
    /\ batch[p].pc = "done" /\ batch[p].res = "Conflict"
    /\ \E i, j \in 1..Len(batch[p].ranges) :
         LET ri == batch[p].ranges[i]
             rj == batch[p].ranges[j]
         IN  /\ \E x \in batch[p].existing : Intersect(ri.start_ts, ri.end_ts, x.start, x.end)
             /\ ~Intersect(ri.start_ts, ri.end_ts, rj.start_ts, rj.end_ts)
             /\ \A x \in batch[p].existing : ~Intersect(rj.start_ts, rj.end_ts, x.start, x.end)
             /\ ~\E si \in slot_instances :
                   /\ si.created_by = batch[p].professorId
                   /\ si.start_ts = rj.start_ts /\ si.end_ts = rj.end_ts

\* C7 (overlap test): on intervals with start < end the helper is true
\* exactly when the intervals share a timestamp, which is when
\* NOT (e1 <= s2 OR e2 <= s1), and it is symmetric; a batch passes the check
\* only if its ranges meet neither each other nor the rows read, answers
\* Conflict only if some do, and a batch that answered 201 has all its rows
\* in the table.
C7_OverlapTest ==
  /\ \A s1, e1, s2, e2 \in Timestamps :
       (s1 < e1 /\ s2 < e2)
       => /\ overlaps(s1, e1, s2, e2) = Intersect(s1, e1, s2, e2)
          /\ overlaps(s1, e1, s2, e2) = overlaps(s2, e2, s1, e1)
  /\ \A p \in Procs :
       /\ batch[p].pc \in {"insert", "commit"}
          => ~RangesCollide(batch[p].ranges, batch[p].existing)
       /\ (batch[p].pc = "done" /\ batch[p].res = "Conflict")
          => RangesCollide(batch[p].ranges, batch[p].existing)
       /\ (batch[p].pc = "done" /\ batch[p].res = "created")
          => \A k \in 1..Len(batch[p].ranges) :
               \E si \in slot_instances :
                 /\ si.created_by = batch[p].professorId /\ si.date = batch[p].date
                 /\ si.start_ts = batch[p].ranges[k].start_ts
                 /\ si.end_ts = batch[p].ranges[k].end_ts

\* C7 witness: a batch of two adjacent ranges (e1 = s2) was answered 201 and
\* its two rows are the only rows of the table.
C7_Witness ==
  \E p \in Procs :
    /\ batch[p].pc = "done" /\ batch[p].res = "created"
    /\ Len(batch[p].ranges) = 2
    /\ batch[p].ranges[1].end_ts = batch[p].ranges[2].start_ts
    /\ Cardinality(slot_instances) = 2
    /\ \A si \in slot_instances : si.created_by = batch[p].professorId

Waits(p, q) ==
  /\ p # q /\ proc[p].op = "accept"
  /\ \/ proc[p].pc = "lockReq" /\ HoldsReq(q, proc[p].arg)
     \/ proc[p].pc = "lockInst" /\ HoldsInst(q, proc[p].br.slot_instance_id)
     \/ proc[p].pc = "lockSlot" /\ HoldsSlot(q, proc[p].si.slot_id)

\* the kinds of row lock the transaction of p holds
Held(p) ==
  {k \in {"request", "instance", "template"} :
     \/ k = "request" /\ \E r \in booking_requests : HoldsReq(p, r.id)
     \/ k = "instance" /\ \E si \in slot_instances : HoldsInst(p, si.id)
     \/ k = "template" /\ \E t \in slots : HoldsSlot(p, t.id)}

InTransaction(p) == proc[p].op = "accept" /\ proc[p].pc \notin {"idle", "done"}

InstanceOf(p) == RowById(booking_requests, proc[p].arg).slot_instance_id

TemplateOf(p) == RowById(slot_instances, InstanceOf(p)).slot_id

\* C13 as stated (independence across instances): an accept for instance I1
\* never waits for a lock held by an accept for another instance I2, also
\* when both are materialized from the same template.
C13_Original ==
  \A p, q \in Procs :
    (InTransaction(p) /\ InTransaction(q) /\ Waits(p, q))
    => InstanceOf(p) = InstanceOf(q)

\* C13 as amended: an accept for instance I1 waits for a lock held by an
\* accept for another instance I2 only when both instances are materialized
\* from the same template, and then only for the template row lock of step 3.
C13_IndependentUnlessSameTemplate ==
  \A p, q \in Procs :
    (InTransaction(p) /\ InTransaction(q) /\ Waits(p, q) /\ InstanceOf(p) # InstanceOf(q))
    => /\ proc[p].pc = "lockSlot"
       /\ TemplateOf(p) # NoId /\ TemplateOf(p) = TemplateOf(q)

\* C13 witness: two accepts for different instances that share no template
\* hold their request and instance locks at the same time, both ready to
\* commit.
C13_Witness ==
  \E p, q \in Procs :
    /\ p # q /\ proc[p].op = "accept" /\ proc[q].op = "accept"
    /\ proc[p].pc = "commit" /\ proc[q].pc = "commit"
    /\ proc[p].si.id # proc[q].si.id
    /\ proc[p].si.slot_id # proc[q].si.slot_id

\* C14 (self-request forbidden): no BookingRequest has the resolved owner of
\* its instance (createdBy if present, else the template's owner) as its
\* requester; a submit of the owner never gets past the owner check, and a
\* submit that is answered at that check for an instance that exists is
\* answered Forbidden and inserts nothing.
C14_SelfRequestForbidden ==
  /\ [](\A si \in slot_instances :
          /\ \A r \in booking_requests :
               r.slot_instance_id = si.id => r.requester_id # SpecOwner(si)
          /\ \A p \in Procs :
               ( /\ proc[p].op = "submit" /\ proc[p].pc \in {"dupCheck", "insertReq"}
                 /\ proc[p].arg = si.id )
               => proc[p].user # SpecOwner(si))
  /\ [][\A p \in Procs :
          ( /\ proc[p].pc = "idle" /\ proc'[p].op = "submit" /\ proc'[p].pc = "done"
            /\ \E si \in slot_instances : si.id = proc'[p].arg )
          => (proc'[p].res = "Forbidden" /\ booking_requests' = booking_requests)]_vars

\* C14 witness: a submit for an instance that has a creator and a template
\* of another provider was answered Forbidden; the template's owner, who is
\* not the resolved owner, has a request for it, and the creator has none.
C14_Witness ==
  \E p \in Procs : \E si \in slot_instances :
    /\ proc[p].op = "submit" /\ proc[p].pc = "done" /\ proc[p].res = "Forbidden"
    /\ proc[p].arg = si.id
    /\ si.created_by # NoUser /\ si.slot_id # NoId
    /\ RowById(slots, si.slot_id).professor_id # si.created_by
    /\ \E r \in booking_requests :
         r.slot_instance_id = si.id /\ r.requester_id = RowById(slots, si.slot_id).professor_id
    /\ \A r \in booking_requests : r.requester_id # si.created_by

\* C15 as stated (request uniqueness): in every committed state there is at
\* most one BookingRequest per (slotInstanceId, requesterId) pair, also after
\* two concurrent submits of one consumer for one instance.
C15_Original ==
  \A r1, r2 \in booking_requests :
    (r1.slot_instance_id = r2.slot_instance_id /\ r1.requester_id = r2.requester_id)
    => r1.id = r2.id

C17_DeleteAuthorization ==
  [][/\ slot_instances' # slot_instances
        => \E p \in Procs : \E si \in slot_instances :
             /\ proc[p].op = "delete" /\ proc[p].pc = "delDelete" /\ proc'[p].res = "ok"
             /\ si.id = proc[p].arg /\ slot_instances' = slot_instances \ {si}
             /\ proc[p].user = SpecOwner(si)
     /\ \A p \in Procs :
          ( /\ proc[p].op = "delete" /\ proc[p].pc = "delSelect"
            /\ proc'[p].pc # "delSelect" /\ proc'[p].res # "StoreError" )
          => /\ slot_instances' = slot_instances
             /\ IF \A si \in slot_instances : si.id # proc[p].arg
                THEN proc'[p].res = "NotFound"
                ELSE IF SpecOwner(RowById(slot_instances, proc[p].arg)) # proc[p].user
                     THEN proc'[p].res = "Forbidden"
                ELSE proc'[p].pc = "delDelete"]_vars

\* C17 witness: a delete of the resolved owner removed the instance after a
\* delete of it by another provider was answered Forbidden.
C17_Witness ==
  \E p, q \in Procs :
    /\ proc[p].op = "delete" /\ proc[p].pc = "done" /\ proc[p].res = "ok"
    /\ proc[q].op = "delete" /\ proc[q].pc = "done" /\ proc[q].res = "Forbidden"
    /\ proc[p].arg = proc[q].arg
    /\ \A si \in slot_instances : si.id # proc[p].arg

\* C18 as stated (no orphaned bookings): every Booking and every
\* BookingRequest references a slot instance that exists.
C18_Original ==
  /\ \A k \in 1..Len(bookings) :
       \E si \in slot_instances : si.id = bookings[k].slot_instance_id
  /\ \A r \in booking_requests :
       \E si \in slot_instances : si.id = r.slot_instance_id

\* the checks of a range that the batch route is to make
ValidRange(r, date) ==
  r.start_ts < r.end_ts /\ DateOf(r.start_ts) = date /\ DateOf(r.end_ts) = date

\* C19 as stated (batch preconditions): a batch whose date is earlier than
\* the server's current date, or that has a range with start >= end or with
\* start or end not on the date, is answered a validation error before the
\* transaction and inserts nothing; every stored instance has
\* start < end, both on its date.
C19_Original ==
  /\ \A p \in Procs :
       (batch[p].pc \in {"select", "insert", "commit"}
          \/ (batch[p].pc = "done" /\ batch[p].res \in {"created", "Conflict"}))
       => /\ batch[p].date >= Today
          /\ \A k \in 1..Len(batch[p].ranges) : ValidRange(batch[p].ranges[k], batch[p].date)
  /\ \A si \in slot_instances :
       si.start_ts < si.end_ts /\ DateOf(si.start_ts) = si.date /\ DateOf(si.end_ts) = si.date

\* C20 as stated (store errors in accept are surfaced): an accept call in
\* which a query threw ends, after the rollback, with exactly one error
\* response to the caller: never without a response, never with a success.
C20_Original ==
  \A p \in Procs :
    (proc[p].op = "accept" /\ proc[p].pc = "done")
    => proc[p].res # "ReferenceError"

\* C21 as stated (bounded retry of transient store errors): a call whose
\* transaction fails with a store error begins the transaction again, and
\* only a call whose retries are exhausted is answered the error: no call is
\* answered a store error by the step that ends its first transaction.
C21_Original ==
  [][\A p \in Procs :
       /\ ~( /\ batch[p].pc \in {"select", "insert", "commit"}
             /\ batch'[p].pc = "done" /\ batch'[p].res = "StoreError" )
       /\ ~( /\ proc[p].op = "accept" /\ proc[p].pc \notin {"idle", "done"}
             /\ proc'[p].pc = "done" /\ proc'[p].res \in StoreErrorOutcomes )]_vars

\* the caller of p is not the resolved owner of the instance of the request
\* it names, and both rows exist
Unauthorized(p) ==
  LET r  == RowById(booking_requests, proc[p].arg)
      si == RowById(slot_instances, r.slot_instance_id)
  IN  r.id # NoId /\ si.id # NoId /\ SpecOwner(si) # proc[p].user

\* C22 as stated (no status leak): an accept or a reject by a caller who is
\* not the resolved owner of the request's instance is answered Forbidden
\* whatever the status of the request, so the answer tells such a caller
\* nothing about the status.
C22_Original ==
  [][\A p \in Procs :
       ( /\ proc[p].op \in {"accept", "reject"} /\ proc[p].pc # "done"
         /\ Unauthorized(p)
         /\ proc'[p].pc = "done" /\ proc'[p].res \notin StoreErrorOutcomes )
       => proc'[p].res = "Forbidden"]_vars

\* C23 as stated (effects of a successful accept): the step in which an
\* accept succeeds adds exactly one Booking, for the instance, the id and the
\* requester of the request, and sets that request's status to accepted; it
\* changes no other request, no other Booking, no instance and no template;
\* and no committed state shows a Booking of a request that is not accepted,
\* or an accepted request without its Booking.
C23_Original ==
  /\ [][\A p \in Procs :
          (proc[p].pc # "done" /\ proc'[p].op = "accept" /\ proc'[p].pc = "done"
             /\ proc'[p].res = "ok")
          => LET r == RowById(booking_requests, proc[p].arg)
             IN  /\ r.id # NoId
                 /\ bookings' = Append(bookings,
                      [slot_instance_id |-> r.slot_instance_id, request_id |-> r.id,
                       user_id |-> r.requester_id])
                 /\ booking_requests' =
                      (booking_requests \ {r}) \cup {[r EXCEPT !.status = "accepted"]}
                 /\ slot_instances' = slot_instances /\ slots' = slots]_vars
  /\ [](\A r \in booking_requests :
          (r.status = "accepted") <=> (BookingsOf(r.id) # {}))

\* C24 (atomic batch insert): the step in which a batch that has passed the
\* overlap checks is answered a store error leaves the slot instances as
\* they were, whatever it had inserted; the table changes only in the step
\* that commits a batch, which adds one row for each of its ranges, all
\* together.
C24_AtomicBatchInsert ==
  [][/\ \A p \in Procs :
          (batch[p].pc # "done" /\ batch'[p].pc = "done" /\ batch'[p].res = "StoreError")
          => slot_instances' = slot_instances
     /\ slot_instances' # slot_instances
        => \E p \in Procs :
             /\ batch[p].pc = "commit" /\ batch'[p].res = "created"
             /\ slot_instances \subseteq slot_instances'
             /\ Cardinality(slot_instances' \ slot_instances) = Len(batch[p].ranges)
             /\ \A k \in 1..Len(batch[p].ranges) :
                  \E si \in slot_instances' \ slot_instances :
                    /\ si.start_ts = batch[p].ranges[k].start_ts
                    /\ si.end_ts = batch[p].ranges[k].end_ts
                    /\ si.date = batch[p].date /\ si.created_by = batch[p].professorId]_vars

\* C24 witness: a batch was answered a store error after its first INSERT,
\* and the table holds no row of that provider.
C24_Witness ==
  \E p \in Procs :
    /\ batch[p].pc = "done" /\ batch[p].res = "StoreError"
    /\ batch[p].inserted = 1
    /\ \A si \in slot_instances : si.created_by # batch[p].professorId

\* C26 as stated (data-inconsistency failures of accept): an accept that
\* finds the instance row of its request missing, or no owner for the
\* instance, is answered a server-side error (5xx), not a client error
\* (4xx); it creates no Booking and leaves the request pending.
C26_Original ==
  \A p \in Procs :
    ( /\ proc[p].op = "accept" /\ proc[p].pc = "done"
      /\ proc[p].res \in {"InstanceMissing", "MissingOwner"} )
    => /\ HttpStatus(proc[p].res) >= 500
       /\ BookingsOf(proc[p].arg) = {}
       /\ RowById(booking_requests, proc[p].arg).status = "pending"

\* C27 as stated (no self-accept): no Booking has as its user the identity
\* that accept authorizes for the Booking's instance, because the owner that
\* submit excludes and the owner that accept authorizes are the same for
\* every instance, also for one with a createdBy and a template of another
\* provider.
C27_Original ==
  \A k \in 1..Len(bookings) : \A si \in slot_instances :
    si.id = bookings[k].slot_instance_id
    => bookings[k].user_id # ownerProfessorId(si, RowById(slots, si.slot_id))

\* C28 as stated (resubmission after a terminal outcome): a duplicate check
\* that runs when the caller has an accepted or rejected request for the
\* instance answers Conflict and inserts nothing, and a consumer whose
\* request for an instance is accepted or rejected has no second request
\* for that instance.
C28_Original ==
  /\ [][\A p \in Procs :
          ( /\ proc[p].op = "submit" /\ proc[p].pc = "dupCheck" /\ proc'[p].pc # "dupCheck"
            /\ \E r \in booking_requests :
                 /\ r.slot_instance_id = proc[p].arg /\ r.requester_id = proc[p].user
                 /\ r.status \in {"accepted", "rejected"} )
          => (proc'[p].res = "Conflict" /\ booking_requests' = booking_requests)]_vars
  /\ [](\A r \in booking_requests :
          r.status \in {"accepted", "rejected"}
          => \A r2 \in booking_requests :
               (r2.slot_instance_id = r.slot_instance_id /\ r2.requester_id = r.requester_id)
               => r2.id = r.id)

\* the number of accepted follow_requests rows that satisfy a condition
AcceptedTo(u)   == Cardinality({c \in Ids \X Ids : c[2] = u /\ follow_requests[c] = "accepted"})
AcceptedFrom(u) == Cardinality({c \in Ids \X Ids : c[1] = u /\ follow_requests[c] = "accepted"})

\* C29: under any interleaving of send, accept, reject, cancel and unfollow
\* calls, every user's followers_count is the number of accepted follow
\* requests that target the user and following_count is the number of
\* accepted follow requests the user issued.
C29_CountersTrackAccepted ==
  \A u \in Ids :
    /\ followers_count[u] = AcceptedTo(u)
    /\ following_count[u] = AcceptedFrom(u)

\* two follows of P are accepted and counted while a duplicate accept of one
\* of them was answered "no pending request"
C29_Witness ==
  /\ followers_count["P"] = 2
  /\ following_count["Q"] = 1
  /\ \E p \in Procs : follow[p].op = "accept" /\ follow[p].res = "NoPending"

\* a step of the verify-otp handler of a route
VerifyStep(route) == now' = now /\ otp'.route = route /\ otp'.email \in Emails /\ otp'.otp # ""

\* what C30 says of a verify-otp step on a store
SingleUse(store, storeAfter) ==
  LET record  == store[otp'.email]
      expired == record # NoOtp /\ now > record.expires
  IN  /\ otp'.verified => (record # NoOtp /\ record.otp = otp'.otp /\ now <= record.expires)
      /\ (otp'.verified \/ expired) => (storeAfter[otp'.email] = NoOtp)
      /\ expired => ~otp'.verified

\* C30: verify-otp answers verified=true only when the submitted code is
\* the code stored for the email and the time is not past its expiry; a
\* successful verification and an attempt after expiry remove the record, so
\* a code verifies once and an expired code never verifies.
C30_SingleUseAndExpiry ==
  [][/\ VerifyStep("verify-otp") => SingleUse(otpStore, otpStore')
     /\ VerifyStep("forgot/verify-otp") => SingleUse(otpStoreForgot, otpStoreForgot')]_vars

\* a code was verified at the last moment of its life and its record is gone
C30_Witness ==
  /\ otp.route = "verify-otp" /\ otp.verified
  /\ otpStore[otp.email] = NoOtp
  /\ now = OTP_EXPIRY

\* C25: every call of accept and of the batch route that issued BEGIN has
\* ended its transaction by COMMIT or ROLLBACK when the handler finishes, a
\* failing ROLLBACK included: no transaction is left open on a released
\* client and every row lock belongs to a transaction of a running call.
C25_Original ==
  /\ pool = {}
  /\ \A r \in booking_requests : ReqLocked(r.id) => \E p \in Procs : HoldsReq(p, r.id)
  /\ \A si \in slot_instances : InstLocked(si.id) => \E p \in Procs : HoldsInst(p, si.id)
  /\ \A s \in slots : SlotLocked(s.id) => \E p \in Procs : HoldsSlot(p, s.id)

====
